---- MODULE Spec2Model ----
(***************************************************************************)
(* Model of the MCP datasource backend (package plugin, package models).   *)
(*                                                                         *)
(* One Datasource instance is shared by the handler goroutines the plugin  *)
(* host runs against it (QueryData -> query -> listTools / executeToolCall *)
(* / executeNaturalLanguageQuery, and Dispose).  The instance's only       *)
(* mutable field is mcpClient, the lazily created session handle; the code *)
(* reads and writes it without a lock, so every read and every write of it *)
(* is its own step here and the steps of different tasks interleave.       *)
(***************************************************************************)
EXTENDS Integers, Sequences, FiniteSets, TLC

\* ------------------------------------------------------------- bounds
NumTasks == 2          \* handler goroutines running against the instance
MaxOps == 3            \* handler invocations started in one behaviour

\* -------------------------------------------------- program constants
DefaultConnectionTimeout == 30   \* seconds
DefaultMaxRetries == 3
CallTimeout == 30                \* per-call context of ListTools / CallTool
ProbeTimeout == 5                \* context of the ListTools test in createMCPClient

Tasks == 1..NumTasks
Clients == 1..MaxOps             \* a handler invocation constructs at most one client
Nil == 0                         \* the nil *client.Client

\* A URL is its sequence of characters (<<>> is the empty URL).
Authority == <<":", "/", "/", "m">>
HTTP == <<"h", "t", "t", "p">>
HTTPS == <<"h", "t", "t", "p", "s">>
WS == <<"w", "s">>
WSS == <<"w", "s", "s">>
FTP == <<"f", "t", "p">>

\* MCPDataSourceSettings, the fields the backend reads.
Configs ==
    { [ServerURL |-> HTTP \o Authority, ConnectionTimeout |-> 0,  MaxRetries |-> 0],
      [ServerURL |-> WSS \o Authority,  ConnectionTimeout |-> 10, MaxRetries |-> 2],
      [ServerURL |-> <<>>,              ConnectionTimeout |-> 10, MaxRetries |-> 0],
      [ServerURL |-> FTP \o Authority,  ConnectionTimeout |-> 0,  MaxRetries |-> 2] }

\* The inbound query model (models.MCPQuery), the fields query() dispatches on.
QueryTypes == {"natural_language", "tool_call", "list_tools", "other"}
QueryTexts == {"", " ", "q"}
ToolNames == {"", "tool"}
ToolArgumentTexts == {"", "json", "notjson"}

VARIABLES
    settings,      \* d.settings
    mcpClient,     \* d.mcpClient: Nil or a client
    cstatus,       \* per client: "free" "new" "started" "live" "closed" "failed" "aborted"
    cctx,          \* per client: the context its stream and handshake run under
    dial,          \* per client: the transport and URL it was constructed with
    closeCalls,    \* per client: number of Close() calls made on it
    nextClient,    \* the next client to be constructed
    pc,            \* per task: position in its handler
    handle,        \* per task: the local mcpClient variable
    attempts,      \* per task: createMCPClient calls made by the current handler
    result,        \* per task: the response the handler built
    reqCancelled,  \* per task: the inbound request context was cancelled under the handler
    opsStarted,    \* handler invocations started so far
    malformed,     \* per task: its query is a tool_call without a tool name or
                   \* with arguments that are not JSON
    agent          \* the Agent and its ProcessQuery run (package agent)

\* The Datasource and its handlers.
dsvars == <<settings, mcpClient, cstatus, cctx, dial, closeCalls, nextClient, pc,
            handle, attempts, result, reqCancelled, opsStarted, malformed>>

vars == <<settings, mcpClient, cstatus, cctx, dial, closeCalls, nextClient, pc,
          handle, attempts, result, reqCancelled, opsStarted, malformed, agent>>

\* ----------------------------------------------------------- settings
GetConnectionTimeout(s) ==
    IF s.ConnectionTimeout <= 0 THEN DefaultConnectionTimeout ELSE s.ConnectionTimeout

GetMaxRetries(s) ==
    IF s.MaxRetries <= 0 THEN DefaultMaxRetries ELSE s.MaxRetries

\* ----------------------------------------------------------- contexts
Background == [kind |-> "background", owner |-> 0]
RequestCtx(t) == [kind |-> "request", owner |-> t]
CallCtx(t) == [kind |-> "call", owner |-> t]
ProbeCtx(t) == [kind |-> "probe", owner |-> t]

\* The deadline a context carries, in seconds; 0 is no deadline.  The inbound
\* request's deadline is the host's; CancelRequest is its expiry.
Deadline(x) ==
    CASE x.kind = "background" -> 0
      [] x.kind = "call" -> CallTimeout
      [] x.kind = "probe" -> ProbeTimeout
      [] OTHER -> 1

\* The context createMCPClient starts and initialises the client under.
ClientCtxOfRequest(t) == RequestCtx(t)

ClientCtx(t) == Background

\* Cancelling a context ends the stream and handshake of every client under it.
CancelCtx(cs, x) ==
    [c \in Clients |->
        IF cctx[c] = x /\ cs[c] \in {"new", "started", "live"} THEN "aborted" ELSE cs[c]]

\* client.Close(): an established session becomes closed, a handshake in
\* progress is torn down.
ClientClose(cs, c) ==
    [cs EXCEPT ![c] = IF @ = "live" THEN "closed"
                      ELSE IF @ \in {"new", "started"} THEN "failed" ELSE @]

\* url.Parse's scheme: the letters before the first ":" in lower case, none
\* when a character that is no letter comes first; a URL that starts with
\* ":" does not parse.
Letters == {"f", "h", "m", "p", "s", "t", "w", "S", "W"}
ToLower(c) == CASE c = "S" -> "s" [] c = "W" -> "w" [] OTHER -> c
SchemeEnd(url) ==
    IF \E i \in 1..Len(url) : url[i] \notin Letters
    THEN CHOOSE i \in 1..Len(url) :
            /\ url[i] \notin Letters
            /\ \A j \in 1..(i - 1) : url[j] \in Letters
    ELSE Len(url) + 1
ParseFails(url) == SchemeEnd(url) = 1 /\ url # <<>> /\ url[1] = ":"
Scheme(url) ==
    IF SchemeEnd(url) <= Len(url) /\ url[SchemeEnd(url)] = ":"
    THEN [i \in 1..(SchemeEnd(url) - 1) |-> ToLower(url[i])]
    ELSE <<>>

\* The transport the URL scheme selects, or the error createMCPClient returns
\* before it constructs a client.
TransportFor(url) ==
    CASE url = <<>> -> "url_required"
      [] ParseFails(url) -> "invalid_url"
      [] Scheme(url) \in {HTTP, HTTPS} -> "sse"
      [] Scheme(url) \in {WS, WSS} -> "streamable_http"
      [] OTHER -> "unsupported_scheme"

\* A client constructor given the URL as configured.
DialURLUnchanged(url) == url

\* The URL createMCPClient hands to the client constructor.
DialURL(url) ==
    CASE Scheme(url) = WS -> HTTP \o SubSeq(url, 3, Len(url))
      [] Scheme(url) = WSS -> HTTPS \o SubSeq(url, 4, Len(url))
      [] OTHER -> url

\* What a client was constructed with.
NoDial == <<>>
Dial(url) == <<[transport |-> TransportFor(url), url |-> DialURL(url)]>>

\* query(): dispatch on the query type, and the checks each handler makes
\* before it asks for the client.
\* A tool_call query with an empty tool name or with an argument text that
\* is not JSON.
MalformedToolCall(qt, tn, ta) == qt = "tool_call" /\ (tn = "" \/ ta = "notjson")

\* A validation that lets every tool_call query through.
QueryValidationLax(qt, q, tn, ta) ==
    CASE qt = "natural_language" -> IF q = "" THEN "bad_request" ELSE "ok"
      [] qt \in {"tool_call", "list_tools"} -> "ok"
      [] OTHER -> "bad_request"

QueryValidation(qt, q, tn, ta) ==
    CASE qt = "natural_language" -> IF q = "" THEN "bad_request" ELSE "ok"
      [] qt = "tool_call" ->
            IF tn = "" THEN "bad_request"
            ELSE IF ta # "" /\ ta = "notjson" THEN "bad_request" ELSE "ok"
      [] qt = "list_tools" -> "ok"
      [] OTHER -> "bad_request"

\* ---------------------------------------------------- package agent
\* The Agent is built on a client and an LLM provider; no handler of the
\* datasource calls it, so its ProcessQuery run is a state machine of its own.
\* A list that is empty or holds one value also stands for a pointer that is
\* nil or set.
NoCalls == [list |-> 0, decide |-> 0, invoke |-> 0, respond |-> 0]

AgentInit ==
    [pc |-> "new", provider |-> "", query |-> "", listErr |-> "", tools |-> <<>>,
     decideErr |-> "", toolCall |-> <<>>,
     resp |-> <<>>, execResult |-> <<>>, execErr |-> "", toolResult |-> <<>>,
     summaryFailed |-> FALSE, retResult |-> <<>>, retErr |-> <<>>, calls |-> NoCalls,
     frame |-> <<>>, reply |-> <<>>, parsed |-> <<>>, selection |-> <<>>,
     decidedOn |-> <<>>, promptTools |-> <<>>, frameLens |-> <<>>]

\* ------------------------------------------------------------- Init
\* NewDatasource: the settings are parsed and the client is left nil.
Init ==
    /\ settings \in Configs
    /\ mcpClient = Nil
    /\ cstatus = [c \in Clients |-> "free"]
    /\ cctx = [c \in Clients |-> Background]
    /\ dial = [c \in Clients |-> NoDial]
    /\ closeCalls = [c \in Clients |-> 0]
    /\ nextClient = 1
    /\ pc = [t \in Tasks |-> "idle"]
    /\ handle = [t \in Tasks |-> Nil]
    /\ attempts = [t \in Tasks |-> 0]
    /\ result = [t \in Tasks |-> "none"]
    /\ reqCancelled = [t \in Tasks |-> FALSE]
    /\ opsStarted = 0
    /\ malformed = [t \in Tasks |-> FALSE]
    /\ agent = AgentInit

\* The handler of task t has built its response res.
Finish(t, res) ==
    /\ pc' = [pc EXCEPT ![t] = "done"]
    /\ result' = [result EXCEPT ![t] = res]
    /\ reqCancelled' = [reqCancelled EXCEPT ![t] = FALSE]

\* ------------------------------------------------------- getMCPClient
\* The read of d.mcpClient: reuse the cached client or go on to create one.
GetCheckAlwaysCreate(t) ==
    /\ pc' = [pc EXCEPT ![t] = "create"]
    /\ UNCHANGED <<handle, result, reqCancelled>>

GetCheck(t) ==
    IF mcpClient # Nil
      THEN /\ handle' = [handle EXCEPT ![t] = mcpClient]
           /\ pc' = [pc EXCEPT ![t] = "call"]
           /\ UNCHANGED <<result, reqCancelled>>
      ELSE /\ pc' = [pc EXCEPT ![t] = "create"]
           /\ UNCHANGED <<handle, result, reqCancelled>>

\* QueryData -> query: a handler goroutine takes one query, checks it, and
\* (listTools, executeToolCall, executeNaturalLanguageQuery) calls
\* getMCPClient, which reads d.mcpClient.
BeginQuery(t) ==
    /\ pc[t] = "idle"
    /\ opsStarted < MaxOps
    /\ opsStarted' = opsStarted + 1
    /\ \E qt \in QueryTypes, q \in QueryTexts, tn \in ToolNames, ta \in ToolArgumentTexts :
          /\ malformed' = [malformed EXCEPT ![t] = MalformedToolCall(qt, tn, ta)]
          /\ IF QueryValidation(qt, q, tn, ta) = "ok"
               THEN GetCheck(t)
               ELSE /\ Finish(t, QueryValidation(qt, q, tn, ta))
                    /\ UNCHANGED handle
    /\ UNCHANGED <<agent, settings, mcpClient, cstatus, cctx, dial, closeCalls, nextClient, attempts>>

\* getMCPClient fails: createMCPClient returned an error, which is wrapped and
\* returned, and the handler answers with an internal failure.  cs is the
\* clients' status after the failed step.
AcquireFailCaches(t, cs) ==
    /\ cstatus' = cs
    /\ mcpClient' = handle[t]
    /\ handle' = [handle EXCEPT ![t] = Nil]
    /\ Finish(t, "acquire_failed")

AcquireFail(t, cs) ==
    /\ cstatus' = cs
    /\ mcpClient' = mcpClient
    /\ handle' = [handle EXCEPT ![t] = Nil]
    /\ Finish(t, "acquire_failed")

\* createMCPClient up to the construction of the client: the URL checks, the
\* choice of transport, and NewSSEMCPClient / NewStreamableHttpClient.
CreateClient(t) ==
    /\ pc[t] = "create"
    /\ attempts' = [attempts EXCEPT ![t] = @ + 1]
    /\ \E constructed \in BOOLEAN :
          IF TransportFor(settings.ServerURL) \in {"sse", "streamable_http"} /\ constructed
            THEN /\ nextClient \in Clients
                 /\ cstatus' = [cstatus EXCEPT ![nextClient] = "new"]
                 /\ cctx' = [cctx EXCEPT ![nextClient] = ClientCtx(t)]
                 /\ dial' = [dial EXCEPT ![nextClient] = Dial(settings.ServerURL)]
                 /\ handle' = [handle EXCEPT ![t] = nextClient]
                 /\ nextClient' = nextClient + 1
                 /\ pc' = [pc EXCEPT ![t] = "start"]
                 /\ UNCHANGED <<mcpClient, result, reqCancelled>>
            ELSE /\ AcquireFail(t, cstatus)
                 /\ UNCHANGED <<cctx, dial, nextClient>>
    /\ UNCHANGED <<agent, malformed, settings, closeCalls, opsStarted>>

\* mcpClient.Start(clientCtx) succeeds.
StartOk(t) ==
    /\ pc[t] = "start"
    /\ cstatus[handle[t]] = "new"
    /\ cstatus' = [cstatus EXCEPT ![handle[t]] = "started"]
    /\ pc' = [pc EXCEPT ![t] = "init"]
    /\ UNCHANGED <<agent, malformed, settings, mcpClient, cctx, dial, closeCalls, nextClient, handle, attempts,
                   result, reqCancelled, opsStarted>>

\* mcpClient.Start(clientCtx) fails: a transport error, or the context's
\* deadline when it has one.  The client is not closed.
StartFail(t) ==
    /\ pc[t] = "start"
    /\ \E why \in {"error"} \cup (IF Deadline(cctx[handle[t]]) > 0 THEN {"timeout"} ELSE {}) :
          AcquireFail(t, [cstatus EXCEPT ![handle[t]] = IF @ = "new" THEN "failed" ELSE @])
    /\ UNCHANGED <<agent, malformed, settings, cctx, dial, closeCalls, nextClient, attempts, opsStarted>>

\* mcpClient.Initialize(clientCtx, initRequest) succeeds.
InitializeOk(t) ==
    /\ pc[t] = "init"
    /\ cstatus[handle[t]] = "started"
    /\ cstatus' = [cstatus EXCEPT ![handle[t]] = "live"]
    /\ pc' = [pc EXCEPT ![t] = "store"]
    /\ UNCHANGED <<agent, malformed, settings, mcpClient, cctx, dial, closeCalls, nextClient, handle, attempts,
                   result, reqCancelled, opsStarted>>

\* mcpClient.Initialize fails: the client is closed and the error returned.
InitializeFail(t) ==
    /\ pc[t] = "init"
    /\ \E why \in {"error"} \cup (IF Deadline(cctx[handle[t]]) > 0 THEN {"timeout"} ELSE {}) :
          AcquireFail(t, ClientClose(cstatus, handle[t]))
    /\ closeCalls' = [closeCalls EXCEPT ![handle[t]] = @ + 1]
    /\ UNCHANGED <<agent, malformed, settings, cctx, dial, nextClient, attempts, opsStarted>>

\* The rest of a successful createMCPClient and of getMCPClient: the ListTools
\* test under its own 5 s context (the result is only logged), the deferred
\* testCancel on return, and d.mcpClient = mcpClient.
GetStore(t) ==
    /\ pc[t] = "store"
    /\ cstatus' = CancelCtx(cstatus, ProbeCtx(t))
    /\ mcpClient' = handle[t]
    /\ pc' = [pc EXCEPT ![t] = "call"]
    /\ UNCHANGED <<agent, malformed, settings, cctx, dial, closeCalls, nextClient, handle, attempts,
                   result, reqCancelled, opsStarted>>

\* ------------------------------------------------- the per-call operation
\* ListTools / CallTool on the handle, under context.WithTimeout(Background,
\* 30 s), succeeds and the handler builds its frame.
CallOk(t) ==
    /\ pc[t] = "call"
    /\ cstatus[handle[t]] = "live"
    /\ Finish(t, "ok")
    /\ UNCHANGED <<agent, malformed, settings, mcpClient, cstatus, cctx, dial, closeCalls, nextClient, handle,
                   attempts, opsStarted>>

\* ListTools / CallTool fails or runs into the per-call deadline: the handler
\* logs the error and answers with an internal failure.
CallFailResets(t) ==
    /\ pc[t] = "call"
    /\ \E why \in {"call_failed"} \cup (IF Deadline(CallCtx(t)) > 0 THEN {"call_timeout"} ELSE {}) :
          Finish(t, why)
    /\ cstatus' = ClientClose(cstatus, handle[t])
    /\ closeCalls' = [closeCalls EXCEPT ![handle[t]] = @ + 1]
    /\ mcpClient' = Nil
    /\ UNCHANGED <<agent, malformed, settings, cctx, dial, nextClient, handle, attempts, opsStarted>>

CallFail(t) ==
    /\ pc[t] = "call"
    /\ \E why \in {"call_failed"} \cup (IF Deadline(CallCtx(t)) > 0 THEN {"call_timeout"} ELSE {}) :
          Finish(t, why)
    /\ UNCHANGED <<agent, malformed, settings, mcpClient, cstatus, cctx, dial, closeCalls, nextClient, handle,
                   attempts, opsStarted>>

\* The handler returns its response: the deferred cancel of the per-call
\* context runs and the goroutine is free for the next request.
Return(t) ==
    /\ pc[t] = "done"
    /\ cstatus' = CancelCtx(cstatus, CallCtx(t))
    /\ pc' = [pc EXCEPT ![t] = "idle"]
    /\ handle' = [handle EXCEPT ![t] = Nil]
    /\ attempts' = [attempts EXCEPT ![t] = 0]
    /\ result' = [result EXCEPT ![t] = "none"]
    /\ malformed' = [malformed EXCEPT ![t] = FALSE]
    /\ UNCHANGED <<agent, settings, mcpClient, cctx, dial, closeCalls, nextClient, reqCancelled,
                   opsStarted>>

\* The host cancels the inbound request's context (its deadline, or the
\* caller went away) while the handler runs.
CancelRequest(t) ==
    /\ pc[t] \in {"create", "start", "init", "store", "call"}
    /\ ~reqCancelled[t]
    /\ reqCancelled' = [reqCancelled EXCEPT ![t] = TRUE]
    /\ cstatus' = CancelCtx(cstatus, RequestCtx(t))
    /\ UNCHANGED <<agent, malformed, settings, mcpClient, cctx, dial, closeCalls, nextClient, pc, handle,
                   attempts, result, opsStarted>>

\* ------------------------------------------------------------ Dispose
\* Dispose, the test d.mcpClient != nil.
DisposeCheck(t) ==
    /\ pc[t] = "idle"
    /\ opsStarted < MaxOps
    /\ opsStarted' = opsStarted + 1
    /\ IF mcpClient # Nil
         THEN /\ pc' = [pc EXCEPT ![t] = "disp_close"]
              /\ UNCHANGED <<result, reqCancelled>>
         ELSE Finish(t, "disposed")
    /\ UNCHANGED <<agent, malformed, settings, mcpClient, cstatus, cctx, dial, closeCalls, nextClient, handle,
                   attempts>>

\* Dispose, d.mcpClient.Close(): the field is read again, and it stays set.
DisposeClose(t) ==
    /\ pc[t] = "disp_close"
    /\ cstatus' = ClientClose(cstatus, mcpClient)
    /\ closeCalls' = [closeCalls EXCEPT ![mcpClient] = @ + 1]
    /\ Finish(t, "disposed")
    /\ UNCHANGED <<agent, malformed, settings, mcpClient, cctx, dial, nextClient, handle, attempts, opsStarted>>

\* ------------------------------------------------------ specifications
TaskNext(t) ==
    \/ BeginQuery(t)
    \/ CreateClient(t)
    \/ StartOk(t)
    \/ StartFail(t)
    \/ InitializeOk(t)
    \/ InitializeFail(t)
    \/ GetStore(t)
    \/ CallOk(t)
    \/ CallFail(t)
    \/ Return(t)
    \/ CancelRequest(t)
    \/ DisposeCheck(t)
    \/ DisposeClose(t)

\* Handler goroutines run concurrently against the instance.
Next == \E t \in Tasks : TaskNext(t)

Spec == Init /\ [][Next]_vars

\* One handler at a time: a request starts only when no other is running.
NextSeq == \E t \in Tasks : (\A u \in Tasks \ {t} : pc[u] = "idle") /\ TaskNext(t)

SpecSeq == Init /\ [][NextSeq]_vars

TypeOK ==
    /\ settings \in Configs
    /\ mcpClient \in {Nil} \cup Clients
    /\ cstatus \in [Clients -> {"free", "new", "started", "live", "closed", "failed", "aborted"}]
    /\ closeCalls \in [Clients -> 0..MaxOps]
    /\ nextClient \in 1..(MaxOps + 1)
    /\ handle \in [Tasks -> {Nil} \cup Clients]
    /\ attempts \in [Tasks -> 0..1]
    /\ reqCancelled \in [Tasks -> BOOLEAN]
    /\ opsStarted \in 0..MaxOps
    /\ malformed \in [Tasks -> BOOLEAN]
    /\ \A c \in Clients : Len(dial[c]) <= 1


\* The scheduler runs every runnable goroutine and timers fire, so steps that
\* wait for nothing but the program itself or a context deadline are taken;
\* nothing makes the server answer (StartOk, InitializeOk, CallOk) or the
\* network fail.
StartTimeout(t) == pc[t] = "start" /\ Deadline(cctx[handle[t]]) > 0 /\ StartFail(t)

InitializeTimeout(t) == pc[t] = "init" /\ Deadline(cctx[handle[t]]) > 0 /\ InitializeFail(t)

CallTimeoutStep(t) == Deadline(CallCtx(t)) > 0 /\ CallFail(t)

SpecFair ==
    /\ Init
    /\ [][Next]_vars
    /\ \A t \in Tasks :
          /\ WF_vars(CreateClient(t))
          /\ WF_vars(GetStore(t))
          /\ WF_vars(Return(t))
          /\ WF_vars(DisposeClose(t))
          /\ WF_vars(StartTimeout(t))
          /\ WF_vars(InitializeTimeout(t))
          /\ WF_vars(CallTimeoutStep(t))

\* ------------------------------------------------------------- claims
\* The positions of getMCPClient between its read of d.mcpClient (found nil)
\* and its return.
InAcquire == {"create", "start", "init", "store"}
InHandshake == {"start", "init", "store"}
HandshakeCount == nextClient - 1
Live == {c \in Clients : cstatus[c] = "live"}

\* C1: single-flight.  Concurrent getMCPClient calls on a datasource with no
\* session perform one handshake between them and all get the same handle:
\* no two tasks are ever inside a handshake of their own at the same time, and
\* the handles two tasks hold after getMCPClient are the same client.
C1_SingleFlight ==
    /\ Cardinality({t \in Tasks : pc[t] \in InHandshake}) <= 1
    /\ \A t, u \in Tasks : pc[t] = "call" /\ pc[u] = "call" => handle[t] = handle[u]

\* C2: session reuse.  With one handler running at a time, once a client is
\* cached every later getMCPClient returns that cached client and no further
\* handshake is made: the cached handle and the handshake count never change.
C2_SessionReuse ==
    [][mcpClient # Nil =>
          /\ mcpClient' = mcpClient
          /\ HandshakeCount' = HandshakeCount
          /\ \A t \in Tasks : pc[t] = "idle" /\ pc'[t] \notin {"idle", "done", "disp_close"}
                => pc'[t] = "call" /\ handle'[t] = mcpClient]_vars

\* A later query got the cached client while the handshake count is 1.
C2_Witness ==
    /\ HandshakeCount = 1
    /\ opsStarted >= 2
    /\ \E t \in Tasks : pc[t] = "call" /\ attempts[t] = 0 /\ handle[t] = mcpClient /\ mcpClient # Nil

\* C3: the datasource has at most one live connection (started, initialised
\* and not closed) in every reachable state.
C3_AtMostOneLive == Cardinality(Live) <= 1

\* C4: a failed handshake.  getMCPClient makes at most one createMCPClient
\* call and so one handshake attempt; when it fails the handler is answered
\* with the error and holds no handle, and the client of a failed handshake
\* is never the cached one, so d.mcpClient stays as it was and the next call
\* finding it nil starts a new handshake.
C4_FailedAcquire ==
    /\ \A t \in Tasks : attempts[t] <= 1
    /\ \A t \in Tasks : result[t] = "acquire_failed" => handle[t] = Nil /\ attempts[t] = 1
    /\ \A c \in Clients : cstatus[c] = "failed" =>
          mcpClient # c /\ \A t \in Tasks : handle[t] # c
    /\ (\A c \in Clients : cstatus[c] \in {"free", "failed"}) => mcpClient = Nil

\* A handshake failed, and a later getMCPClient made a new one that succeeded
\* and was cached.
C4_Witness ==
    \E c1, c2 \in Clients :
        c1 < c2 /\ cstatus[c1] = "failed" /\ cstatus[c2] = "live" /\ mcpClient = c2

\* C5: Dispose is idempotent and closes the session handle exactly once: no
\* client ever receives a second Close().
C5_ClosedOnce == \A c \in Clients : closeCalls[c] <= 1

\* C6: Dispose and getMCPClient are serialised on d.mcpClient: no step of
\* Dispose (its read of the field, its Close) is taken while another task is
\* between getMCPClient's read of the field and its return, so a handshake in
\* progress never overlaps a disposal.
C6_DisposeSerialised ==
    [][\A t \in Tasks :
          (\/ pc[t] = "idle" /\ (pc'[t] = "disp_close" \/ result'[t] = "disposed")
           \/ pc[t] = "disp_close" /\ pc'[t] = "done")
          => \A u \in Tasks \ {t} : pc[u] \notin InAcquire]_vars

\* C7: the inbound request's deadline or cancellation never aborts the
\* handshake or the established session: no client's stream is ever ended by
\* the cancellation of a context.
C7_HandshakeDetached == \A c \in Clients : cstatus[c] # "aborted"

\* The request was cancelled while its handler was creating the session, and
\* the handshake completed all the same.
C7_Witness ==
    \E t \in Tasks : reqCancelled[t] /\ pc[t] = "store" /\ cstatus[handle[t]] = "live"

\* C8: every getMCPClient call eventually returns, also when the server never
\* answers the handshake, the connection timeout bounding Start and
\* Initialize.
C8_AcquireReturns == \A t \in Tasks : (pc[t] \in InAcquire) ~> (pc[t] \notin InAcquire)

\* C9: when session establishment fails under a query, the connection attempt
\* has been retried the configured maximum number of times (GetMaxRetries)
\* when the internal failure is reported.  Stated for the failures a retry
\* could cure: the URL is usable and a handshake was made.
C9_RetriedUpToMax ==
    \A t \in Tasks :
        /\ result[t] = "acquire_failed"
        /\ TransportFor(settings.ServerURL) \in {"sse", "streamable_http"}
        /\ \E c \in Clients : cstatus[c] = "failed"
        => attempts[t] - 1 = GetMaxRetries(settings)

\* C10: a per-call operation (ListTools, CallTool) that fails, times out or
\* succeeds, and the deferred cancel of its context, leave the shared session
\* as it was (d.mcpClient, every client's status and Close() count); a live
\* session stops being live only by Dispose's Close() of the cached client.
C10_CallLeavesSession ==
    [][/\ \A t \in Tasks :
             (pc[t] = "call" /\ pc'[t] = "done") \/ (pc[t] = "done" /\ pc'[t] = "idle")
             => mcpClient' = mcpClient /\ cstatus' = cstatus /\ closeCalls' = closeCalls
       /\ \A c \in Clients :
             cstatus[c] = "live" /\ cstatus'[c] # "live"
             => \E t \in Tasks : pc[t] = "disp_close" /\ pc'[t] = "done" /\ mcpClient = c]_vars

\* A call ran into its deadline and the cached session is still live.
C10_Witness ==
    \E t \in Tasks :
        /\ pc[t] = "done"
        /\ result[t] = "call_timeout"
        /\ handle[t] = mcpClient
        /\ cstatus[mcpClient] = "live"
        /\ closeCalls[mcpClient] = 0


\* ------------------------------------------------------- agent inputs
MaxTools == 2
MaxContent == 2

SeqsUpTo(S, n) == UNION {[1..k -> S] : k \in 0..n}

Providers == {"mock", "anthropic", "openai"}

QueryInputs ==
    {"", "  ", "hello", "warnings", "search logs", "show error logs", "find warnings",
     "warn on error"}

\* strings.TrimSpace(q) == ""
IsBlank(q) == q \in {"", "  "}

\* The words strings.Contains finds in strings.ToLower(q).
Keywords(q) ==
    CASE q = "show error logs" -> {"error", "log"}
      [] q = "warnings"        -> {"warn"}
      [] q = "search logs"     -> {"search", "log"}
      [] q = "find warnings"   -> {"find", "warn"}
      [] q = "warn on error"   -> {"warn", "error"}
      [] OTHER                 -> {}

CatalogToolNames == {"loki_query", "LOKI_labels", "prometheus_query"}

\* A provider's answer may name a tool the server never listed.
DecidedToolNames == CatalogToolNames \cup {"unlisted_tool"}

\* strings.Contains(strings.ToLower(name), "loki")
ContainsLoki(name) == name \in {"loki_query", "LOKI_labels"}

Catalogs == SeqsUpTo(CatalogToolNames, MaxTools)

\* A text is the list of its pieces; a content segment is a text or not.
Segments ==
    { [type |-> "text",  text |-> <<"a">>],
      [type |-> "text",  text |-> <<>>],
      [type |-> "image", text |-> <<>>] }

Responses == [IsError : BOOLEAN, Content : SeqsUpTo(Segments, MaxContent)]

TransportErrors == {"context deadline exceeded", "connection reset"}

\* ------------------------------------------------------ MockProvider
NoArguments == {}

\* A Go value held in an interface{}: its dynamic type and its value.
GoString(x) == [type |-> "string", str |-> x, num |-> 0]
GoInt(n) == [type |-> "int", str |-> "", num |-> n]
GoFloat64(n) == [type |-> "float64", str |-> "", num |-> n]

\* One entry of a map[string]interface{}.
Entry(k, v) == [key |-> k, val |-> v]

ErrorLevelQuery == "{level=\"error\"}"
WarnLevelQuery == "{level=\"warn\"}"
AllJobsQuery == "{job=~\".+\"}"
LogLimit == 100

LogArguments(logQuery) ==
    { Entry("query", GoString(logQuery)), Entry("limit", GoInt(LogLimit)) }

\* The template that puts the warning pattern before the error pattern.
MockLogQueryWarnFirst(q) ==
    IF "warn" \in Keywords(q) THEN WarnLevelQuery
    ELSE IF "error" \in Keywords(q) THEN ErrorLevelQuery
    ELSE AllJobsQuery

\* The template without the warning pattern.
MockLogQueryNoWarn(q) ==
    IF "error" \in Keywords(q) THEN ErrorLevelQuery ELSE AllJobsQuery

MockLogQuery(q) ==
    IF "error" \in Keywords(q) THEN ErrorLevelQuery
    ELSE IF "warn" \in Keywords(q) THEN WarnLevelQuery
    ELSE AllJobsQuery

AsksForLogs(q) == Keywords(q) \cap {"log", "search", "query", "find", "error"} # {}

\* The first tool of the catalog whose name contains "loki", 0 if none.
FirstLoki(tools) ==
    IF \E i \in 1..Len(tools) : ContainsLoki(tools[i])
    THEN CHOOSE i \in 1..Len(tools) :
            /\ ContainsLoki(tools[i])
            /\ \A j \in 1..(i - 1) : ~ContainsLoki(tools[j])
    ELSE 0

NoToolNeeded == [err |-> "", call |-> <<>>]

\* An empty catalog answered with an error.
MockEmptyCatalogFails(q) == [err |-> "no tools available", call |-> <<>>]

MockEmptyCatalog(q) == NoToolNeeded

MockLokiCall(q, tools) ==
    [err |-> "",
     call |-> << [ToolName  |-> tools[FirstLoki(tools)],
                  Arguments |-> LogArguments(MockLogQuery(q)),
                  Reasoning |-> <<"The user's query '", q,
                                  "' appears to be asking for log data, so I'll use the ",
                                  tools[FirstLoki(tools)],
                                  " tool to search for relevant logs.">>] >>]

\* No fallback: nothing is called when the heuristic matches no tool.
MockFirstToolSkipped(q, tools) == NoToolNeeded

MockFirstTool(q, tools) ==
    [err |-> "",
     call |-> << [ToolName  |-> tools[1],
                  Arguments |-> NoArguments,
                  Reasoning |-> <<"I'll use the ", tools[1],
                                  " tool to help answer your query: ", q>>] >>]

MockGenerateToolCall(q, tools) ==
    IF Len(tools) = 0 THEN MockEmptyCatalog(q)
    ELSE IF AsksForLogs(q) /\ FirstLoki(tools) # 0 THEN MockLokiCall(q, tools)
    ELSE MockFirstTool(q, tools)

\* A respond that fails.
MockGenerateResponseFails(hasError, hasTools) ==
    [err |-> "mock failure", text |-> <<>>]

MockGenerateResponse(hasError, hasTools) ==
    IF hasError THEN [err |-> "", text |-> <<"I encountered an error">>]
    ELSE IF hasTools THEN [err |-> "", text |-> <<"I can help you with various tasks">>]
    ELSE [err |-> "", text |-> <<"I've processed your request">>]

\* ------------------------------------------------ the other providers
\* AnthropicProvider.GenerateToolCall. A reply of the model is a list of
\* pieces: prose without braces, a brace on its own, the literal null, or the
\* text of a well-formed JSON object (it begins with { and ends with }).
MaxReply == 3

NoObject == [noTool |-> "absent", toolName |-> <<>>, arguments |-> "absent",
             reasoning |-> "absent"]

ReplyArguments == { Entry("query", GoString(ErrorLevelQuery)) }

\* noTool: the JSON value of no_tool_needed; toolName: none or the one value of
\* tool_name; arguments, reasoning: the JSON type of that member.
DecisionObjects ==
    { NoObject,
      [NoObject EXCEPT !.noTool = "true"],
      [NoObject EXCEPT !.noTool = "true", !.toolName = <<GoString("loki_query")>>],
      [NoObject EXCEPT !.noTool = "string", !.toolName = <<GoString("unlisted_tool")>>],
      [NoObject EXCEPT !.noTool = "false", !.toolName = <<GoString("prometheus_query")>>,
                       !.arguments = "string"],
      [NoObject EXCEPT !.toolName = <<GoString("loki_query")>>, !.arguments = "object",
                       !.reasoning = "string"],
      [NoObject EXCEPT !.toolName = <<GoFloat64(42)>>, !.arguments = "object"] }

Pieces ==
    { [k |-> "prose", o |-> NoObject], [k |-> "lbrace", o |-> NoObject],
      [k |-> "rbrace", o |-> NoObject], [k |-> "null", o |-> NoObject] }
    \cup { [k |-> "object", o |-> o] : o \in DecisionObjects }

Replies == SeqsUpTo(Pieces, MaxReply)

\* json.Unmarshal of a text into a map[string]interface{}.
JSONUnmarshal(text) ==
    IF Len(text) = 1 /\ text[1].k = "object" THEN [ok |-> TRUE, obj |-> text[1].o]
    ELSE IF Len(text) = 1 /\ text[1].k = "null" THEN [ok |-> TRUE, obj |-> NoObject]
    ELSE [ok |-> FALSE, obj |-> NoObject]

\* strings.Index(response, "{"), counted in pieces from 1; 0 if there is none.
IndexLBrace(reply) ==
    IF \E i \in 1..Len(reply) : reply[i].k \in {"lbrace", "object"}
    THEN CHOOSE i \in 1..Len(reply) :
            /\ reply[i].k \in {"lbrace", "object"}
            /\ \A j \in 1..(i - 1) : reply[j].k \notin {"lbrace", "object"}
    ELSE 0

\* strings.LastIndex(response, "}"), counted in pieces from 1; 0 if none.
LastIndexRBrace(reply) ==
    IF \E i \in 1..Len(reply) : reply[i].k \in {"rbrace", "object"}
    THEN CHOOSE i \in 1..Len(reply) :
            /\ reply[i].k \in {"rbrace", "object"}
            /\ \A j \in (i + 1)..Len(reply) : reply[j].k \notin {"rbrace", "object"}
    ELSE 0

ParseFailed == "failed to parse tool selection response"
NoJSONFound == "no valid JSON found in response"
InvalidToolName == "invalid tool_name in response"

Unparsed(e) == [err |-> e, obj |-> <<>>]

\* The parse that gives up when the whole reply is not JSON.
ParseReplyWholeOnly(reply) ==
    IF JSONUnmarshal(reply).ok
    THEN [err |-> "", obj |-> <<JSONUnmarshal(reply).obj>>]
    ELSE Unparsed(NoJSONFound)

\* The two-stage parse of the reply.
ParseReply(reply) ==
    IF JSONUnmarshal(reply).ok
    THEN [err |-> "", obj |-> <<JSONUnmarshal(reply).obj>>]
    ELSE IF IndexLBrace(reply) > 0 /\ LastIndexRBrace(reply) >= IndexLBrace(reply)
    THEN IF JSONUnmarshal(SubSeq(reply, IndexLBrace(reply), LastIndexRBrace(reply))).ok
         THEN [err |-> "",
               obj |-> <<JSONUnmarshal(SubSeq(reply, IndexLBrace(reply),
                                              LastIndexRBrace(reply))).obj>>]
         ELSE Unparsed(ParseFailed)
    ELSE Unparsed(NoJSONFound)

IsGoString(v) == Len(v) = 1 /\ v[1].type = "string"

SelectedCall(o) ==
    [ToolName |-> o.toolName[1].str,
     Arguments |-> IF o.arguments = "object" THEN ReplyArguments ELSE NoArguments,
     Reasoning |-> IF o.reasoning = "string" THEN <<"reasoning">> ELSE <<>>]

\* The reading of any no_tool_needed member as "no tool".
ToolSelectionLoose(o) ==
    IF o.noTool # "absent" THEN NoToolNeeded
    ELSE IF ~IsGoString(o.toolName) THEN [err |-> InvalidToolName, call |-> <<>>]
    ELSE [err |-> "", call |-> <<SelectedCall(o)>>]

\* What GenerateToolCall makes of the parsed object.
ToolSelection(o) ==
    IF o.noTool = "true" THEN NoToolNeeded
    ELSE IF ~IsGoString(o.toolName) THEN [err |-> InvalidToolName, call |-> <<>>]
    ELSE [err |-> "", call |-> <<SelectedCall(o)>>]

AnthropicSelect(reply) ==
    IF ParseReply(reply).err # ""
    THEN [err |-> ParseReply(reply).err, call |-> <<>>]
    ELSE ToolSelection(ParseReply(reply).obj[1])

AnthropicGenerateToolCall ==
    { [err |-> "failed to get tool selection from Claude", call |-> <<>>] }
    \cup { AnthropicSelect(reply) : reply \in Replies }

AnthropicGenerateResponse ==
    { [err |-> "anthropic request failed", text |-> <<>>],
      [err |-> "", text |-> <<"llm text">>] }

OpenAINotImplemented ==
    "OpenAI provider not yet implemented - please use mock provider for testing"

GenerateToolCall(p, q, tools) ==
    CASE p = "mock"      -> {MockGenerateToolCall(q, tools)}
      [] p = "anthropic" -> AnthropicGenerateToolCall
      [] OTHER           -> {[err |-> OpenAINotImplemented, call |-> <<>>]}

GenerateResponse(p, hasError, hasTools) ==
    CASE p = "mock"      -> {MockGenerateResponse(hasError, hasTools)}
      [] p = "anthropic" -> AnthropicGenerateResponse
      [] OTHER           -> {[err |-> OpenAINotImplemented, text |-> <<>>]}

\* ------------------------------------------------------- executeTool
NoData == [kind |-> "nil", text |-> <<>>, content |-> <<>>]

\* Every segment taken for a text segment.
AllContents(content) == content

TextContents(content) == SelectSeq(content, LAMBDA c : c.type = "text")

\* strings.Join(texts, "\n") of the text segments
RECURSIVE JoinNewline(_)
JoinNewline(cs) ==
    IF Len(cs) = 0 THEN <<>>
    ELSE IF Len(cs) = 1 THEN cs[1].text
    ELSE cs[1].text \o <<"\n">> \o JoinNewline(Tail(cs))

ResultData(content) ==
    IF Len(content) = 0 THEN NoData
    ELSE IF Len(TextContents(content)) > 0
    THEN [kind |-> "text", text |-> JoinNewline(TextContents(content)), content |-> <<>>]
    ELSE [kind |-> "content", text |-> <<>>, content |-> content]

\* What executeTool returns when CallTool fails with the error e.
ExecuteToolFailed(tc, e) ==
    [res |-> [ToolName |-> tc.ToolName, Success |-> FALSE, Data |-> NoData, Error |-> e],
     err |-> e]

\* executeTool reporting every answered call as a success.
ExecuteToolAnsweredOk(tc, r) ==
    [res |-> [ToolName |-> tc.ToolName, Success |-> TRUE,
              Data |-> ResultData(r.Content), Error |-> ""],
     err |-> ""]

\* What executeTool returns when CallTool answers r.
ExecuteToolAnswered(tc, r) ==
    [res |-> [ToolName |-> tc.ToolName, Success |-> ~r.IsError,
              Data |-> ResultData(r.Content), Error |-> ""],
     err |-> ""]

\* The handling of a failed executeTool that leaves the tool name out.
HandleExecutedUnnamed(tc, ex) ==
    IF ex.err # ""
    THEN [ToolName |-> "", Success |-> FALSE, Data |-> NoData, Error |-> ex.err]
    ELSE ex.res

\* The handling of a failed executeTool that leaves the error text out.
HandleExecutedSilent(tc, ex) ==
    IF ex.err # ""
    THEN [ToolName |-> tc.ToolName, Success |-> FALSE, Data |-> NoData, Error |-> ""]
    ELSE ex.res

\* ProcessQuery's handling of what executeTool returned.
HandleExecuted(tc, ex) ==
    IF ex.err # ""
    THEN [ToolName |-> tc.ToolName, Success |-> FALSE, Data |-> NoData, Error |-> ex.err]
    ELSE ex.res

\* ------------------------------------------------------ ProcessQuery
\* A fallback summary that names neither the tool nor the query.
FallbackSummaryBare(tc, q) == <<"Executed a tool">>

FallbackSummary(tc, q) == <<"Executed tool '", tc.ToolName, "' for query: ", q>>

\* A QueryResult that carries the query trimmed down to nothing.
QueryResultNoQuery(q, calls, results, summary) ==
    [Query |-> "", ToolCalls |-> calls, Results |-> results, Summary |-> summary]

\* The QueryResult ProcessQuery builds (ProcessedAt is the time of the return).
QueryResult(q, calls, results, summary) ==
    [Query |-> q, ToolCalls |-> calls, Results |-> results, Summary |-> summary]

Called(a, what) == [a.calls EXCEPT ![what] = @ + 1]

\* NewAgent and the entry of ProcessQuery: nothing is checked about the query.
ProcessQuery(p, q) ==
    /\ agent.pc = "new"
    /\ agent' = [agent EXCEPT !.pc = "list", !.provider = p, !.query = q]
    /\ UNCHANGED dsvars

GetAvailableToolsOk(tools) ==
    /\ agent.pc = "list"
    /\ agent' = [agent EXCEPT !.pc = "decide", !.tools = tools,
                              !.calls = Called(agent, "list")]
    /\ UNCHANGED dsvars

\* A catalog failure after which ProcessQuery goes on with no tools.
GetAvailableToolsFailContinues(e) ==
    /\ agent.pc = "list"
    /\ agent' = [agent EXCEPT !.pc = "decide", !.calls = Called(agent, "list"),
                              !.listErr = e]
    /\ UNCHANGED dsvars

GetAvailableToolsFail(e) ==
    /\ agent.pc = "list"
    /\ agent' = [agent EXCEPT !.pc = "returned", !.calls = Called(agent, "list"),
                              !.listErr = e,
                              !.retErr = <<"failed to get available tools: ", e>>]
    /\ UNCHANGED dsvars

\* Step 2: the provider decides on the catalog of step 1 (decidedOn notes it).
Decide ==
    /\ agent.pc = "decide"
    /\ \E d \in GenerateToolCall(agent.provider, agent.query, agent.tools) :
          agent' = IF d.err # ""
                   THEN [agent EXCEPT !.pc = "returned", !.calls = Called(agent, "decide"),
                                      !.decidedOn = <<agent.tools>>,
                                      !.decideErr = d.err,
                                      !.retErr = <<"failed to generate tool call: ", d.err>>]
                   ELSE IF d.call = <<>>
                   THEN [agent EXCEPT !.pc = "respond", !.calls = Called(agent, "decide"),
                                      !.decidedOn = <<agent.tools>>]
                   ELSE [agent EXCEPT !.pc = "invoke", !.calls = Called(agent, "decide"),
                                      !.decidedOn = <<agent.tools>>,
                                      !.toolCall = d.call]
    /\ UNCHANGED dsvars

\* The direct answer, given r by the provider for a prompt listing tools.
Responded(r, tools) ==
    IF r.err # ""
    THEN [agent EXCEPT !.pc = "returned", !.calls = Called(agent, "respond"),
                       !.promptTools = <<tools>>,
                       !.retErr = <<"failed to generate response: ", r.err>>]
    ELSE [agent EXCEPT !.pc = "returned", !.calls = Called(agent, "respond"),
                       !.promptTools = <<tools>>,
                       !.retResult = <<QueryResult(agent.query, <<>>, <<>>, r.text)>>]

\* A direct answer that fetches the catalog again for its prompt.
RespondDirectRefetches ==
    /\ agent.pc = "respond"
    /\ \E tools \in Catalogs :
       \E r \in GenerateResponse(agent.provider, "error" \in Keywords(agent.query), TRUE) :
          agent' = [Responded(r, tools) EXCEPT !.calls.list = @ + 1]
    /\ UNCHANGED dsvars

RespondDirect ==
    /\ agent.pc = "respond"
    /\ \E r \in GenerateResponse(agent.provider, "error" \in Keywords(agent.query), TRUE) :
          agent' = Responded(r, agent.tools)
    /\ UNCHANGED dsvars

\* Step 3 returning executeTool's error to the caller of ProcessQuery.
ExecutedPropagates(ex, resp) ==
    /\ agent' = IF ex.err # ""
                THEN [agent EXCEPT !.pc = "returned", !.calls = Called(agent, "invoke"),
                                   !.resp = resp, !.execResult = <<ex.res>>,
                                   !.execErr = ex.err,
                                   !.retErr = <<"failed to execute tool: ", ex.err>>]
                ELSE [agent EXCEPT !.pc = "summary", !.calls = Called(agent, "invoke"),
                                   !.resp = resp, !.execResult = <<ex.res>>,
                                   !.execErr = ex.err, !.toolResult = <<ex.res>>]
    /\ UNCHANGED dsvars

Executed(ex, resp) ==
    /\ agent' = [agent EXCEPT !.pc = "summary", !.calls = Called(agent, "invoke"),
                              !.resp = resp, !.execResult = <<ex.res>>,
                              !.execErr = ex.err,
                              !.toolResult = <<HandleExecuted(agent.toolCall[1], ex)>>]
    /\ UNCHANGED dsvars

ExecuteToolOk(r) ==
    /\ agent.pc = "invoke"
    /\ Executed(ExecuteToolAnswered(agent.toolCall[1], r), <<r>>)

ExecuteToolFail(e) ==
    /\ agent.pc = "invoke"
    /\ Executed(ExecuteToolFailed(agent.toolCall[1], e), <<>>)

SummaryHasError ==
    \/ "error" \in Keywords(agent.query)
    \/ ~agent.toolResult[1].Success

\* A return that leaves a failed outcome out of the results.
SummarisedDropsFailed(r) ==
    [agent EXCEPT !.pc = "returned", !.calls = Called(agent, "respond"),
                  !.summaryFailed = (r.err # ""),
                  !.retResult = <<QueryResult(agent.query, agent.toolCall,
                                              SelectSeq(agent.toolResult, LAMBDA o : o.Success),
                                              r.text)>>]

\* A failed summary after which the tool is invoked once more.
SummarisedRetries(r) ==
    IF r.err # "" /\ agent.calls.invoke < 2
    THEN [agent EXCEPT !.pc = "invoke", !.calls = Called(agent, "respond")]
    ELSE [agent EXCEPT !.pc = "returned", !.calls = Called(agent, "respond"),
                       !.summaryFailed = (r.err # ""),
                       !.retResult = <<QueryResult(agent.query, agent.toolCall,
                                                   agent.toolResult, r.text)>>]

Summarised(r) ==
    [agent EXCEPT !.pc = "returned", !.calls = Called(agent, "respond"),
                  !.summaryFailed = (r.err # ""),
                  !.retResult = <<QueryResult(agent.query, agent.toolCall, agent.toolResult,
                                              IF r.err # ""
                                              THEN FallbackSummary(agent.toolCall[1], agent.query)
                                              ELSE r.text)>>]

GenerateSummary ==
    /\ agent.pc = "summary"
    /\ \E r \in GenerateResponse(agent.provider, SummaryHasError, TRUE) :
          agent' = Summarised(r)
    /\ UNCHANGED dsvars

\* --------------------------------------- Datasource.executeToolCall
\* The frame the tool_call handler builds from the server's answer r.
ToolCallFrame(tn, r) ==
    [tool_name |-> tn, success |-> ~r.IsError,
     result |-> [i \in 1..Len(r.Content) |->
                    IF r.Content[i].type = "text" THEN r.Content[i].text
                    ELSE <<"Non-text content: ", r.Content[i].type>>],
     isError |-> r.IsError]

\* The number of rows of each field of a frame, in the order the fields are
\* appended: tool_name, success, timestamp and, when the answer has content,
\* result with one row per segment.
ToolCallFrameRows(r) ==
    <<1, 1, 1>> \o (IF Len(r.Content) > 0 THEN <<Len(r.Content)>> ELSE <<>>)

\* listTools: name and description, one row per tool.
ListToolsFrameRows(tools) == <<Len(tools), Len(tools)>>

\* executeNaturalLanguageQuery: query, available_tools, timestamp.
NaturalLanguageFrameRows(tools) == <<1, 1, 1>>

ExecuteToolCallFrame(tn, r) ==
    /\ agent.pc = "new"
    /\ agent' = [agent EXCEPT !.pc = "framed", !.resp = <<r>>,
                              !.frame = <<ToolCallFrame(tn, r)>>,
                              !.frameLens = ToolCallFrameRows(r)]
    /\ UNCHANGED dsvars

\* AnthropicProvider.GenerateToolCall on one reply of the model.
SelectTool(reply) ==
    /\ agent.pc = "new"
    /\ agent' = [agent EXCEPT !.pc = "selected", !.provider = "anthropic",
                              !.reply = reply, !.parsed = ParseReply(reply).obj,
                              !.selection = <<AnthropicSelect(reply)>>]
    /\ UNCHANGED dsvars

\* The step the run is at is tested before its inputs are drawn.
NextAgent ==
    \/ agent.pc = "new" /\ \E p \in Providers, q \in QueryInputs : ProcessQuery(p, q)
    \/ agent.pc = "list" /\ \E tools \in Catalogs : GetAvailableToolsOk(tools)
    \/ agent.pc = "list" /\ \E e \in TransportErrors : GetAvailableToolsFail(e)
    \/ Decide
    \/ RespondDirect
    \/ agent.pc = "invoke" /\ \E r \in Responses : ExecuteToolOk(r)
    \/ agent.pc = "invoke" /\ \E e \in TransportErrors : ExecuteToolFail(e)
    \/ GenerateSummary
    \/ agent.pc = "new" /\ \E r \in Responses : ExecuteToolCallFrame("tool", r)
    \/ agent.pc = "new" /\ \E reply \in Replies : SelectTool(reply)

InitAgent == Init /\ settings.ServerURL = HTTP \o Authority

SpecAgent == InitAgent /\ [][NextAgent]_vars

AgentTypeOK ==
    /\ agent.pc \in {"new", "list", "decide", "respond", "invoke", "summary",
                     "returned", "framed", "selected"}
    /\ Len(agent.toolCall) <= 1
    /\ Len(agent.toolResult) <= 1
    /\ Len(agent.retResult) <= 1
    /\ \A w \in DOMAIN agent.calls : agent.calls[w] \in 0..1

Returned == agent.pc = "returned"

\* ProcessQuery returned a QueryResult and no error.
ReturnedResult == Returned /\ agent.retResult # <<>> /\ agent.retErr = <<>>

\* -------------------------------------------------- claims: ProcessQuery
\* C11: for every query whose text is empty or only whitespace, the
\* orchestrator fails with a validation error and performs no network call
\* (no catalog fetch, no reasoning call, no tool invocation).
C11_BlankQueryRejected ==
    (agent.pc \notin {"new", "framed", "selected"} /\ IsBlank(agent.query)) =>
        /\ agent.calls = NoCalls
        /\ agent.pc \in {"list", "returned"}
        /\ Returned => (agent.retResult = <<>> /\ agent.retErr # <<>>)

\* The QueryResult ProcessQuery returned (read only under ReturnedResult).
Result == agent.retResult[1]

\* C12: every QueryResult returned by ProcessQuery has a tool_calls list and a
\* results list of the same length, and the outcome at position i belongs to
\* the invocation at position i.
C12_ListsAligned ==
    ReturnedResult =>
        /\ Len(Result.ToolCalls) = Len(Result.Results)
        /\ \A i \in 1..Len(Result.ToolCalls) :
              Result.Results[i].ToolName = Result.ToolCalls[i].ToolName

C12_Witness ==
    /\ ReturnedResult
    /\ Len(Result.ToolCalls) = 1
    /\ Result.Results[1].ToolName = "LOKI_labels"
    /\ ~Result.Results[1].Success

\* C13: in every QueryResult returned by ProcessQuery the invocation list and
\* the outcome list are both empty if and only if the decision step returned
\* null; otherwise each holds exactly one entry.
C13_EmptyIffNoTool ==
    ReturnedResult =>
        IF agent.toolCall = <<>>
        THEN Result.ToolCalls = <<>> /\ Result.Results = <<>>
        ELSE /\ Result.ToolCalls = agent.toolCall
             /\ Len(Result.ToolCalls) = 1
             /\ Len(Result.Results) = 1

C13_Witness ==
    /\ ReturnedResult
    /\ agent.calls.decide = 1
    /\ agent.toolCall = <<>>
    /\ Len(agent.tools) > 0
    /\ Result.ToolCalls = <<>>

\* C14: when the tool invocation fails with a transport error, ProcessQuery
\* still returns a QueryResult and no error, holding exactly one outcome, for
\* the decided tool, with success false and a non-empty error text.
C14_FailedInvocationReported ==
    (Returned /\ agent.execErr # "") =>
        /\ agent.retErr = <<>>
        /\ agent.retResult # <<>>
        /\ Len(Result.Results) = 1
        /\ Result.Results[1].ToolName = agent.toolCall[1].ToolName
        /\ ~Result.Results[1].Success
        /\ Result.Results[1].Error # ""

C14_Witness ==
    /\ ReturnedResult
    /\ agent.execErr = "connection reset"
    /\ ~agent.summaryFailed
    /\ Result.Results[1].Error = "connection reset"

\* C15: in one ProcessQuery run tools/call is issued exactly once when the
\* decision step returns an invocation and never when it returns null; it is
\* not repeated after a failed invocation or a failed summary.
C15_InvokedOnce ==
    /\ agent.calls.invoke <= 1
    /\ agent.pc = "summary" => agent.calls.invoke = 1
    /\ Returned =>
          agent.calls.invoke =
             IF agent.toolCall # <<>> /\ agent.decideErr = "" /\ agent.listErr = ""
             THEN 1 ELSE 0

C15_Witness ==
    /\ ReturnedResult
    /\ agent.execErr # ""
    /\ agent.summaryFailed
    /\ agent.calls.invoke = 1

\* C16: if the catalog fetch fails, or the decision step returns an error,
\* ProcessQuery aborts with that error: it returns no QueryResult and no later
\* step runs (after a catalog failure no decide, invoke or respond call; after
\* a decision failure no invoke or respond call).
C16_AbortOnEarlyFailure ==
    /\ agent.listErr # "" =>
          /\ Returned
          /\ agent.retResult = <<>>
          /\ Len(agent.retErr) = 2 /\ agent.retErr[2] = agent.listErr
          /\ agent.calls = [NoCalls EXCEPT !.list = 1]
    /\ agent.decideErr # "" =>
          /\ Returned
          /\ agent.retResult = <<>>
          /\ Len(agent.retErr) = 2 /\ agent.retErr[2] = agent.decideErr
          /\ agent.calls = [NoCalls EXCEPT !.list = 1, !.decide = 1]

C16_Witness ==
    /\ Returned
    /\ agent.decideErr # ""
    /\ Len(agent.tools) > 0
    /\ agent.retResult = <<>>

\* C17: if the summarising call fails after a tool was invoked, ProcessQuery
\* does not fail: it returns the QueryResult with the single invocation and
\* outcome and a fixed templated summary that holds the tool name and the
\* original query text.
C17_SummaryFallback ==
    (Returned /\ agent.summaryFailed) =>
        /\ agent.retErr = <<>>
        /\ agent.retResult # <<>>
        /\ Result.Query = agent.query
        /\ Result.ToolCalls = agent.toolCall /\ Len(Result.ToolCalls) = 1
        /\ Result.Results = agent.toolResult /\ Len(Result.Results) = 1
        /\ Result.Summary =
              <<"Executed tool '", agent.toolCall[1].ToolName, "' for query: ", agent.query>>

C17_Witness ==
    /\ ReturnedResult
    /\ agent.summaryFailed
    /\ agent.execErr = ""
    /\ agent.query = "find warnings"
    /\ Result.Summary[2] = "unlisted_tool"

\* -------------------------------------------------- claims: executeTool
\* C18: every ToolOutcome of an invocation attempt has exactly one of payload
\* and error text set: a successful one a payload and an empty error text, a
\* failed one a non-empty error text and no payload; also when the server
\* reports a logical error with content and when it returns no content.
C18_OutcomeExclusive ==
    \A i \in 1..Len(agent.execResult) :
        IF agent.execResult[i].Success
        THEN agent.execResult[i].Data # NoData /\ agent.execResult[i].Error = ""
        ELSE agent.execResult[i].Data = NoData /\ agent.execResult[i].Error # ""

\* C19: for every tool call that completes at the transport level the success
\* flag equals the negation of the error flag the server reported, both in
\* executeTool and in the datasource's tool_call query path.
C19_SuccessNegatesErrorFlag ==
    /\ (agent.execResult # <<>> /\ agent.resp # <<>>) =>
          agent.execResult[1].Success = ~agent.resp[1].IsError
    /\ agent.frame # <<>> =>
          /\ agent.frame[1].success = ~agent.resp[1].IsError
          /\ agent.frame[1].isError = agent.resp[1].IsError

C19_Witness ==
    /\ agent.pc = "summary"
    /\ agent.resp # <<>>
    /\ agent.resp[1].IsError
    /\ Len(agent.resp[1].Content) > 0
    /\ ~agent.toolResult[1].Success

\* C20 (as stated): executeTool never signals an error to its caller; it
\* returns only a ToolOutcome and no error value, also when the call fails.
C20_InvokerReturnsNoError ==
    agent.execResult # <<>> => agent.execErr = ""

\* C20 (amended): when CallTool fails, executeTool returns the error value
\* together with a failed ToolOutcome carrying its text; ProcessQuery keeps an
\* equal failed outcome and goes on, so the error never leaves ProcessQuery.
C20_FailureCapturedByCaller ==
    (agent.execResult # <<>> /\ agent.resp = <<>>) =>
        /\ agent.execErr \in TransportErrors
        /\ agent.execResult[1] =
              [ToolName |-> agent.toolCall[1].ToolName, Success |-> FALSE,
               Data |-> NoData, Error |-> agent.execErr]
        /\ agent.toolResult = agent.execResult
        /\ agent.pc \in {"summary", "returned"}
        /\ Returned => (agent.retErr = <<>> /\ Result.Results = agent.execResult)

C20_Witness ==
    /\ agent.pc = "summary"
    /\ agent.execErr = "context deadline exceeded"
    /\ agent.execResult[1].Error = "context deadline exceeded"

\* -------------------------------------------------- claims: MockProvider
\* The mock provider has answered the decision step of this run.
MockDecided == agent.provider = "mock" /\ agent.calls.decide = 1

HasLoki(tools) == \E i \in 1..Len(tools) : ContainsLoki(tools[i])

\* The values of the argument "query" of a tool call (none or one).
QueryArgument(tc) == {e.val : e \in {x \in tc.Arguments : x.key = "query"}}

\* C21: the mock provider's decide returns null for every query text when the
\* catalog is empty.
C21_EmptyCatalogNoTool ==
    (MockDecided /\ Len(agent.tools) = 0) =>
        /\ agent.toolCall = <<>>
        /\ agent.decideErr = ""
        /\ agent.pc \in {"respond", "returned"}

C21_Witness ==
    /\ MockDecided
    /\ agent.tools = <<>>
    /\ agent.query = "show error logs"
    /\ agent.pc = "respond"

\* C22: for the mock provider, every catalog holding a tool whose name contains
\* "loki" and every query containing "error" (with or without "warn"), decide
\* returns an invocation of the first such tool in catalog order with the
\* arguments query = {level="error"} and limit = 100.
C22_ErrorTemplate ==
    (MockDecided /\ HasLoki(agent.tools) /\ "error" \in Keywords(agent.query)) =>
        /\ agent.decideErr = ""
        /\ Len(agent.toolCall) = 1
        /\ \E i \in 1..Len(agent.tools) :
              /\ ContainsLoki(agent.tools[i])
              /\ \A j \in 1..(i - 1) : ~ContainsLoki(agent.tools[j])
              /\ agent.toolCall[1].ToolName = agent.tools[i]
        /\ agent.toolCall[1].Arguments =
              { [key |-> "query", val |-> [type |-> "string", str |-> "{level=\"error\"}", num |-> 0]],
                [key |-> "limit", val |-> [type |-> "int", str |-> "", num |-> 100]] }

C22_Witness ==
    /\ MockDecided
    /\ agent.query = "warn on error"
    /\ agent.tools = <<"LOKI_labels", "loki_query">>
    /\ agent.toolCall[1].ToolName = "LOKI_labels"

\* C23 (as stated): for the mock provider and a catalog with a "loki" tool,
\* every query containing "warn" and not "error" yields query = {level="warn"}
\* and every query containing neither yields query = {job=~".+"}.
C23_TemplateForEveryQuery ==
    (MockDecided /\ HasLoki(agent.tools) /\ "error" \notin Keywords(agent.query)) =>
        /\ Len(agent.toolCall) = 1
        /\ QueryArgument(agent.toolCall[1]) =
              IF "warn" \in Keywords(agent.query)
              THEN {GoString("{level=\"warn\"}")}
              ELSE {GoString("{job=~\".+\"}")}

\* C23 (amended): the same, for the queries that contain one of the words log,
\* search, query, find; a query with none of them (and no "error") gets no
\* query argument at all.
C23_TemplateByKeyword ==
    (MockDecided /\ HasLoki(agent.tools) /\ "error" \notin Keywords(agent.query)) =>
        /\ Len(agent.toolCall) = 1
        /\ QueryArgument(agent.toolCall[1]) =
              IF Keywords(agent.query) \cap {"log", "search", "query", "find"} = {}
              THEN {}
              ELSE IF "warn" \in Keywords(agent.query)
              THEN {GoString("{level=\"warn\"}")}
              ELSE {GoString("{job=~\".+\"}")}

C23_Witness ==
    /\ MockDecided
    /\ agent.query = "find warnings"
    /\ agent.tools = <<"prometheus_query", "loki_query">>
    /\ QueryArgument(agent.toolCall[1]) = {GoString("{level=\"warn\"}")}

\* C24: for the mock provider and a non-empty catalog, when the query has no
\* intent keyword or no tool name contains "loki", decide returns an invocation
\* of the first catalog entry with an empty argument mapping; it never returns
\* null on a non-empty catalog.
C24_FallbackFirstTool ==
    (MockDecided /\ Len(agent.tools) > 0) =>
        /\ agent.decideErr = ""
        /\ Len(agent.toolCall) = 1
        /\ (\/ Keywords(agent.query) \cap {"log", "search", "query", "find", "error"} = {}
            \/ ~HasLoki(agent.tools)) =>
              /\ agent.toolCall[1].ToolName = agent.tools[1]
              /\ agent.toolCall[1].Arguments = {}

C24_Witness ==
    /\ MockDecided
    /\ agent.query = "warnings"
    /\ agent.tools = <<"loki_query", "prometheus_query">>
    /\ agent.toolCall[1].ToolName = "loki_query"
    /\ agent.toolCall[1].Arguments = {}

\* C25: the mock provider never fails: respond and decide return no error for
\* every prompt, query and catalog, so with it ProcessQuery can fail only at
\* the catalog fetch.
C25_MockNeverFails ==
    agent.provider = "mock" =>
        /\ agent.decideErr = ""
        /\ ~agent.summaryFailed
        /\ (Returned /\ agent.retErr # <<>>) => (agent.listErr # "" /\ agent.calls.decide = 0)
        /\ (Returned /\ agent.calls.respond = 1) => ReturnedResult

C25_Witness ==
    /\ agent.provider = "mock"
    /\ ReturnedResult
    /\ agent.execErr # ""
    /\ agent.calls.respond = 1

\* --------------------------------------------- claims: AnthropicProvider
Selected == agent.pc = "selected"

\* The pieces of the reply that hold a { and those that hold a }.
WithLBrace == {i \in 1..Len(agent.reply) : agent.reply[i].k \in {"lbrace", "object"}}
WithRBrace == {i \in 1..Len(agent.reply) : agent.reply[i].k \in {"rbrace", "object"}}
Objects == {i \in 1..Len(agent.reply) : agent.reply[i].k = "object"}

\* The whole reply is JSON that decodes into a map.
WholeIsJSON == Len(agent.reply) = 1 /\ agent.reply[1].k \in {"object", "null"}

ParseError == Selected /\ agent.selection[1].err \in {ParseFailed, NoJSONFound}

\* C26 (as stated): the reply is parsed whole and, only if that fails, from
\* its first { to its last }; a valid decision object wrapped in extraneous
\* prose is therefore parsed, and a reply with no brace pair or with a brace
\* substring that is not JSON is an error.
C26_WrappedObjectParsed ==
    Selected =>
        /\ (Cardinality(Objects) = 1 /\ \A i \in 1..Len(agent.reply) :
                                           agent.reply[i].k \in {"object", "prose", "lbrace", "rbrace"})
              => \E i \in Objects : agent.parsed = <<agent.reply[i].o>>
        /\ (~WholeIsJSON /\ (WithLBrace = {} \/ WithRBrace = {})) => ParseError

\* C26 (amended): the same two stages; the object is parsed when the prose
\* around it holds no brace, and a reply whose first { to last } is more than
\* the object is an error.
C26_TwoStageParse ==
    Selected =>
        /\ WholeIsJSON => ~ParseError
        /\ (Cardinality(Objects) = 1 /\ \A i \in 1..Len(agent.reply) :
                                           agent.reply[i].k \in {"object", "prose"})
              => \E i \in Objects : agent.parsed = <<agent.reply[i].o>>
        /\ (~WholeIsJSON /\ (WithLBrace = {} \/ WithRBrace = {}
                             \/ \A i \in WithLBrace, j \in WithRBrace : j < i))
              => (agent.selection[1].err = NoJSONFound /\ agent.parsed = <<>>)
        /\ (~WholeIsJSON /\ \E i \in WithLBrace, j \in WithRBrace :
                               /\ i < j
                               /\ \A k \in WithLBrace : i <= k
                               /\ \A k \in WithRBrace : k <= j)
              => (agent.selection[1].err = ParseFailed /\ agent.parsed = <<>>)
        /\ ParseError <=> agent.parsed = <<>>

C26_Witness ==
    /\ Selected
    /\ Len(agent.reply) = 3
    /\ agent.reply[1].k = "prose" /\ agent.reply[2].k = "object" /\ agent.reply[3].k = "prose"
    /\ agent.parsed = <<agent.reply[2].o>>
    /\ agent.selection[1].err = ""
    /\ agent.selection[1].call # <<>>

\* C27: a parsed reply yields null exactly when it carries no_tool_needed =
\* true; otherwise an error if tool_name is missing or not a string, else an
\* invocation with that tool name, whose arguments are an empty mapping when
\* the reply has none or they are not a mapping.
C27_SelectionFromReply ==
    (Selected /\ agent.parsed # <<>>) =>
        /\ (agent.selection[1].err = "" /\ agent.selection[1].call = <<>>)
              <=> agent.parsed[1].noTool = "true"
        /\ agent.parsed[1].noTool # "true" =>
              IF agent.parsed[1].toolName = <<>> \/ agent.parsed[1].toolName[1].type # "string"
              THEN agent.selection[1].err = InvalidToolName /\ agent.selection[1].call = <<>>
              ELSE /\ agent.selection[1].err = ""
                   /\ Len(agent.selection[1].call) = 1
                   /\ agent.selection[1].call[1].ToolName = agent.parsed[1].toolName[1].str
                   /\ agent.selection[1].call[1].Arguments =
                         IF agent.parsed[1].arguments = "object"
                         THEN { [key |-> "query", val |-> GoString("{level=\"error\"}")] }
                         ELSE {}

C27_Witness ==
    /\ Selected
    /\ agent.parsed # <<>>
    /\ agent.parsed[1].noTool = "false"
    /\ agent.parsed[1].arguments = "string"
    /\ agent.selection[1].call[1].ToolName = "prometheus_query"
    /\ agent.selection[1].call[1].Arguments = {}

\* ------------------------------------------------ the wire form (JSON)
\* encoding/json on the struct tags of QueryResult, ToolCall and ToolResult.
\* A Go string becomes a JSON string and every Go number a JSON number; a JSON
\* number decoded into an interface{} is a float64.
EncodeGo(v) ==
    IF v.type = "string" THEN [j |-> "string", str |-> v.str, num |-> 0]
    ELSE [j |-> "number", str |-> "", num |-> v.num]

DecodeGo(w) == IF w.j = "string" THEN GoString(w.str) ELSE GoFloat64(w.num)

EncodeArguments(m) == {Entry(e.key, EncodeGo(e.val)) : e \in m}

DecodeArguments(w) == {Entry(e.key, DecodeGo(e.val)) : e \in w}

\* Data is an interface{}: nil, a string, or the []mcp.Content of the answer,
\* which comes back as a []interface{} of maps.
EncodeData(d) ==
    CASE d.kind = "nil"  -> [j |-> "null", text |-> <<>>, items |-> <<>>]
      [] d.kind = "text" -> [j |-> "string", text |-> d.text, items |-> <<>>]
      [] OTHER           -> [j |-> "array", text |-> <<>>, items |-> d.content]

DecodeData(w) ==
    CASE w.j = "null"   -> NoData
      [] w.j = "string" -> [kind |-> "text", text |-> w.text, content |-> <<>>]
      [] OTHER          -> [kind |-> "generic", text |-> <<>>, content |-> w.items]

EncodeToolCall(tc) ==
    [tool_name |-> tc.ToolName, arguments |-> EncodeArguments(tc.Arguments),
     reasoning |-> tc.Reasoning]

DecodeToolCall(w) ==
    [ToolName |-> w.tool_name, Arguments |-> DecodeArguments(w.arguments),
     Reasoning |-> w.reasoning]

\* The member "error" is left out when the text is empty (omitempty).
EncodeToolResult(r) ==
    [tool_name |-> r.ToolName, success |-> r.Success, data |-> EncodeData(r.Data),
     error |-> IF r.Error = "" THEN <<>> ELSE <<r.Error>>]

DecodeToolResult(w) ==
    [ToolName |-> w.tool_name, Success |-> w.success, Data |-> DecodeData(w.data),
     Error |-> IF w.error = <<>> THEN "" ELSE w.error[1]]

EncodeQueryResult(qr) ==
    [query |-> qr.Query,
     tool_calls |-> [i \in 1..Len(qr.ToolCalls) |-> EncodeToolCall(qr.ToolCalls[i])],
     results |-> [i \in 1..Len(qr.Results) |-> EncodeToolResult(qr.Results[i])],
     summary |-> qr.Summary]

DecodeQueryResult(w) ==
    [Query |-> w.query,
     ToolCalls |-> [i \in 1..Len(w.tool_calls) |-> DecodeToolCall(w.tool_calls[i])],
     Results |-> [i \in 1..Len(w.results) |-> DecodeToolResult(w.results[i])],
     Summary |-> w.summary]

\* C28: encoding a QueryResult produced by ProcessQuery to its wire JSON form
\* and decoding it again yields a QueryResult equal to the original field for
\* field (query, tool calls with their arguments, results with their payload
\* and error text, summary).
C28_RoundTrip ==
    ReturnedResult => DecodeQueryResult(EncodeQueryResult(Result)) = Result

\* ------------------------------------------- claims: executeToolCall
\* C29: a tool_call query with an empty tool name or with an argument text
\* that is not JSON is rejected as a bad request before any network activity:
\* its handler goes from idle straight to its response in a step that acquires
\* no session, starts no handshake and leaves the cached session as it was.
C29_MalformedToolCallRejected ==
    [][\A t \in Tasks :
          malformed'[t] =>
             /\ pc'[t] = "done"
             /\ result'[t] = "bad_request"
             /\ handle'[t] = Nil
             /\ attempts'[t] = 0
             /\ ~malformed[t] =>
                   /\ pc[t] = "idle"
                   /\ UNCHANGED <<mcpClient, cstatus, cctx, dial, closeCalls, nextClient>>]_vars

C29_Witness ==
    \E t \in Tasks :
        /\ malformed[t]
        /\ pc[t] = "done"
        /\ result[t] = "bad_request"
        /\ mcpClient # Nil
        /\ cstatus[mcpClient] = "live"

\* ------------------------------------------------ claims: the payload
\* The texts of the text segments from position i on, in order, each but the
\* first preceded by a newline.
RECURSIVE TextsFrom(_, _, _)
TextsFrom(content, i, first) ==
    IF i > Len(content) THEN <<>>
    ELSE IF content[i].type # "text" THEN TextsFrom(content, i + 1, first)
    ELSE (IF first THEN <<>> ELSE <<"\n">>) \o content[i].text
         \o TextsFrom(content, i + 1, FALSE)

\* C30: for a tool response that completed at the transport level, if it has
\* at least one text segment the payload is the text of all text segments in
\* response order joined by newline, the other segments being skipped; if it
\* has segments but no text segment the payload is the raw content list.
C30_PayloadFromContent ==
    (agent.execResult # <<>> /\ agent.resp # <<>>) =>
        /\ (\E i \in 1..Len(agent.resp[1].Content) : agent.resp[1].Content[i].type = "text") =>
              agent.execResult[1].Data =
                 [kind |-> "text", text |-> TextsFrom(agent.resp[1].Content, 1, TRUE),
                  content |-> <<>>]
        /\ (/\ Len(agent.resp[1].Content) > 0
            /\ \A i \in 1..Len(agent.resp[1].Content) : agent.resp[1].Content[i].type # "text") =>
              agent.execResult[1].Data =
                 [kind |-> "content", text |-> <<>>, content |-> agent.resp[1].Content]

C30_Witness ==
    /\ agent.pc = "summary"
    /\ agent.resp # <<>>
    /\ Len(agent.resp[1].Content) = 2
    /\ agent.resp[1].Content[1].type = "image"
    /\ agent.resp[1].Content[2].text = <<"a">>
    /\ agent.execResult[1].Data.text = <<"a">>

\* C31: within one ProcessQuery run the catalog is fetched exactly once,
\* before the decision, and that one snapshot is what the decision is given
\* and what the explanatory prompt lists, whatever catalog a later fetch
\* would have drawn.
C31_OneCatalogSnapshot ==
    /\ agent.calls.list <= 1
    /\ agent.calls.decide > 0 =>
          /\ agent.calls.list = 1
          /\ agent.listErr = ""
          /\ agent.decidedOn = <<agent.tools>>
    /\ agent.promptTools # <<>> =>
          /\ agent.calls.decide = 1
          /\ agent.promptTools = agent.decidedOn

C31_Witness ==
    /\ Returned
    /\ agent.calls.respond = 1
    /\ agent.promptTools = <<agent.tools>>
    /\ Len(agent.tools) = MaxTools

\* Server addresses: the four supported schemes, upper-case schemes, the empty
\* address, another scheme, no scheme, and one that does not parse.
ServerURLs ==
    { HTTP \o Authority, HTTPS \o Authority, WS \o Authority, WSS \o Authority,
      <<"W", "S">> \o Authority, <<"W", "s", "S">> \o Authority,
      <<>>, FTP \o Authority, <<"m">>, Authority }

\* What follows the scheme of a URL.
AfterScheme(url) == SubSeq(url, SchemeEnd(url), Len(url))

Usable(url) == Scheme(url) \in {HTTP, HTTPS, WS, WSS}

\* The client the address calls for: transport, scheme and remainder of the
\* URL it is given.
DialedAsClaimed(url, d) ==
    /\ Scheme(url) \in {HTTP, HTTPS} =>
          d.transport = "sse" /\ d.url = url
    /\ Scheme(url) = WS =>
          /\ d.transport = "streamable_http"
          /\ Scheme(d.url) = HTTP /\ d.url[1] = "h"
          /\ AfterScheme(d.url) = AfterScheme(url)
    /\ Scheme(url) = WSS =>
          /\ d.transport = "streamable_http"
          /\ Scheme(d.url) = HTTPS /\ d.url[1] = "h"
          /\ AfterScheme(d.url) = AfterScheme(url)

\* Every address of ServerURLs gets the client the claim says, or none.
AddressesDialedAsClaimed ==
    \A url \in ServerURLs :
        /\ Usable(url) => DialedAsClaimed(url, Dial(url)[1])
        /\ ~Usable(url) => TransportFor(url) \notin {"sse", "streamable_http"}

\* The settings whose address is usable, and for each configured address the
\* client the claim allows (DialedAsClaimed leaves one).
UsableConfigs == {cfg \in Configs : Usable(cfg.ServerURL)}

ClaimedDial ==
    [url \in {cfg.ServerURL : cfg \in UsableConfigs} |->
        CHOOSE d \in [transport : {"sse", "streamable_http"}, url : ServerURLs] :
            DialedAsClaimed(url, d)]

\* C32: the transport follows from the server address alone: http and https
\* give the event-stream transport on the unchanged URL, ws and wss the
\* streaming-HTTP transport on the URL with the scheme rewritten to http and
\* https; with an empty address or any other scheme acquire fails, no client
\* is ever constructed and nothing is cached.
C32_TransportFromAddress ==
    /\ AddressesDialedAsClaimed
    /\ \A c \in Clients :
          dial[c] # NoDial => /\ settings \in UsableConfigs
                              /\ dial[c][1] = ClaimedDial[settings.ServerURL]
    /\ settings \notin UsableConfigs =>
          /\ nextClient = 1
          /\ mcpClient = Nil
          /\ \A c \in Clients : cstatus[c] = "free" /\ dial[c] = NoDial
          /\ \A t \in Tasks : result[t] \notin {"ok", "call_failed"} /\ handle[t] = Nil

C32_Witness ==
    /\ settings.ServerURL = WSS \o Authority
    /\ mcpClient # Nil
    /\ dial[mcpClient] = <<[transport |-> "streamable_http", url |-> HTTPS \o Authority]>>

C32_WitnessRefused ==
    /\ settings.ServerURL = FTP \o Authority
    /\ \E t \in Tasks : result[t] = "acquire_failed"

\* handleServersResource: the connected flag it reports; it reads d.mcpClient
\* and changes nothing.
ServersConnected == mcpClient # Nil

DisposeReturned == \E t \in Tasks : pc[t] = "done" /\ result[t] = "disposed"

\* C33: the servers resource reports connected = true exactly when the
\* datasource holds a live session, so once Dispose has returned (one handler
\* at a time) it reports false.
C33_ConnectedIffLive ==
    /\ ServersConnected <=> (mcpClient # Nil /\ cstatus[mcpClient] = "live")
    /\ DisposeReturned => ~ServersConnected

\* C34: after Dispose has closed the session no tools/list or tools/call is
\* issued on the closed handle: no handler stands at its protocol call with a
\* client that has been closed.
C34_NoCallOnClosed ==
    \A t \in Tasks : pc[t] = "call" => cstatus[handle[t]] # "closed"

\* Dispose comes last: once it has returned no new handler starts, and the
\* handlers that were running go on to their end.
NextDisposeLast ==
    \E t \in Tasks :
        /\ DisposeReturned => pc[t] \notin {"idle", "done"}
        /\ TaskNext(t)

SpecDisposeLast == Init /\ [][NextDisposeLast]_vars

\* C35: once Dispose has returned and every acquire that was in flight then
\* has returned, the datasource holds no live connection, also when Dispose
\* ran during a handshake.
C35_NoLiveSessionAfterDispose ==
    (DisposeReturned /\ \A t \in Tasks : pc[t] \notin InAcquire)
        => (mcpClient = Nil \/ cstatus[mcpClient] # "live")

\* C36: ProcessQuery ends in exactly one of two outcomes, a QueryResult and
\* no error or an error and no QueryResult, never both and never neither, and
\* a QueryResult carries the query text it was given; no step is taken twice,
\* so the run is over after at most four calls.
C36_ResultXorError ==
    /\ Returned =>
          /\ (agent.retResult # <<>>) # (agent.retErr # <<>>)
          /\ Len(agent.retResult) <= 1
          /\ agent.retResult # <<>> => Result.Query = agent.query
    /\ ~Returned => agent.retResult = <<>> /\ agent.retErr = <<>>
    /\ \A step \in DOMAIN agent.calls : agent.calls[step] <= 1

C36_Witness ==
    /\ Returned
    /\ agent.summaryFailed
    /\ agent.retErr = <<>>
    /\ Result.Query = "show error logs"

C36_WitnessError ==
    /\ Returned
    /\ agent.retResult = <<>>
    /\ agent.calls.decide = 1
    /\ agent.retErr # <<>>

\* The names of the catalog snapshot of this run.
CatalogNames == {agent.tools[i] : i \in 1..Len(agent.tools)}

\* C37: for every provider, the tool named in the invocation ProcessQuery
\* sends to the server is a tool of the catalog fetched for that query.
C37_InvokedToolInCatalog ==
    agent.calls.invoke > 0 => agent.toolCall[1].ToolName \in CatalogNames

\* All fields of a frame have the same number of rows.
SameRows(rows) == \A i, j \in 1..Len(rows) : rows[i] = rows[j]

\* C38: every frame the query paths return (natural_language, tool_call,
\* list_tools) has fields of one common length, for every number of tools
\* in the catalog and every number of content segments in a tool response.
C38_FramesWellFormed ==
    /\ \A tools \in Catalogs :
          SameRows(ListToolsFrameRows(tools)) /\ SameRows(NaturalLanguageFrameRows(tools))
    /\ agent.pc = "framed" => SameRows(agent.frameLens)

====
